---- MODULE Spec2Model ----
(***************************************************************************)
(* Model of the spend-policy code of package types: the textual codec      *)
(* (SpendPolicy.String and ParseSpendPolicy) and the legacy Merkle          *)
(* accumulator behind PolicyTypeUnlockConditions.root / Address.            *)
(*                                                                          *)
(* Texts are sequences of one-character strings.  A uint64 is four 16-bit   *)
(* limbs, least significant first, so that the 64-bit ceiling is modelled    *)
(* at its real width.  A uint8 is an integer in 0..255.  A digest is the     *)
(* record [h |-> bytes, kids |-> digests] of what was hashed, the bytes      *)
(* followed by the digests: the hash is modelled as injective.               *)
(***************************************************************************)
EXTENDS Integers, Sequences, FiniteSets, TLC

(***************************************************************************)
(* Bounds of the model and constants of the program.                       *)
(***************************************************************************)
\* most public keys of an unlock-conditions value with freely chosen keys
MaxKeys == 5
\* most elements of a generated sub-policy list or key list
MaxList == 2
\* hex characters of a public-key token
PubKeyHexLen == 64
\* slots of the subtree array of root()
NumTrees == 8
\* values of the uint8 leaf counter of root()
Uint8Mod == 256
\* base of one limb of a uint64
LimbBase == Uint8Mod * Uint8Mod

KeyBytes == PubKeyHexLen \div 2

(***************************************************************************)
(* Texts.                                                                   *)
(***************************************************************************)
Whitespace == {" ", "\t", "\n", "\r"}
Delims == {"(", ")", ",", "[", "]"}
DigitChars == <<"0", "1", "2", "3", "4", "5", "6", "7", "8", "9">>
HexTable == <<"0", "1", "2", "3", "4", "5", "6", "7", "8", "9",
              "a", "b", "c", "d", "e", "f">>
HexUpper == <<"0", "1", "2", "3", "4", "5", "6", "7", "8", "9",
              "A", "B", "C", "D", "E", "F">>

\* s[i:] of Go, i counted from 0
DropN(s, i) == SubSeq(s, i + 1, Len(s))

RECURSIVE TrimLeft(_)
TrimLeft(s) ==
    IF s # <<>> /\ Head(s) \in Whitespace THEN TrimLeft(Tail(s)) ELSE s

RECURSIVE TrimRight(_)
TrimRight(s) ==
    IF s # <<>> /\ s[Len(s)] \in Whitespace
    THEN TrimRight(SubSeq(s, 1, Len(s) - 1)) ELSE s

\* strings.TrimSpace
TrimSpace(s) == TrimRight(TrimLeft(s))

\* strings.IndexAny(s, "(),[]"): index from 0 of the first delimiter, -1 if none
IndexAny(s) ==
    IF \E i \in 1..Len(s) : s[i] \in Delims
    THEN (CHOOSE i \in 1..Len(s) :
             s[i] \in Delims /\ \A j \in 1..(i - 1) : s[j] \notin Delims) - 1
    ELSE -1

(***************************************************************************)
(* uint64 arithmetic on limbs, strconv.FormatUint and strconv.ParseUint.    *)
(***************************************************************************)
U64(n) == <<n % LimbBase, n \div LimbBase, 0, 0>>
Zero64 == U64(0)
MaxUint64 == <<LimbBase - 1, LimbBase - 1, LimbBase - 1, LimbBase - 1>>

\* u > v on limbs
Gt64(u, v) ==
    \E i \in 1..4 : u[i] > v[i] /\ \A j \in (i + 1)..4 : u[j] = v[j]

\* u * 10 + d, with the carry out of 64 bits
MulAdd10(u, d) ==
    LET t1 == u[1] * 10 + d
        t2 == (u[2] * 10) + (t1 \div LimbBase)
        t3 == (u[3] * 10) + (t2 \div LimbBase)
        t4 == (u[4] * 10) + (t3 \div LimbBase)
    IN  [val |-> <<t1 % LimbBase, t2 % LimbBase, t3 % LimbBase, t4 % LimbBase>>,
         carry |-> t4 \div LimbBase]

\* u divided by 10: quotient and remainder
DivMod10(u) ==
    LET a4 == u[4]
        a3 == (a4 % 10) * LimbBase + u[3]
        a2 == (a3 % 10) * LimbBase + u[2]
        a1 == (a2 % 10) * LimbBase + u[1]
    IN  [quo |-> <<a1 \div 10, a2 \div 10, a3 \div 10, a4 \div 10>>,
         rem |-> a1 % 10]

RECURSIVE FormatUint(_)
FormatUint(u) ==
    LET qr == DivMod10(u)
    IN  IF qr.quo = Zero64 THEN <<DigitChars[qr.rem + 1]>>
        ELSE FormatUint(qr.quo) \o <<DigitChars[qr.rem + 1]>>

\* mutant: the width of the field is ignored
MaxValWide(bitSize) == MaxUint64

\* the largest value of bitSize bits
MaxVal(bitSize) == IF bitSize = 8 THEN U64(Uint8Mod - 1) ELSE MaxUint64

IsDigit(c) == \E d \in 1..10 : DigitChars[d] = c
DigitVal(c) == (CHOOSE d \in 1..10 : DigitChars[d] = c) - 1

RECURSIVE ParseUintFrom(_, _, _)
ParseUintFrom(t, n, bitSize) ==
    IF t = <<>> THEN [val |-> n, err |-> "nil"]
    ELSE IF ~IsDigit(Head(t)) THEN [val |-> Zero64, err |-> "syntax"]
    ELSE LET m == MulAdd10(n, DigitVal(Head(t)))
         IN  IF m.carry > 0 \/ Gt64(m.val, MaxVal(bitSize))
             THEN [val |-> MaxVal(bitSize), err |-> "range"]
             ELSE ParseUintFrom(Tail(t), m.val, bitSize)

\* strconv.ParseUint(t, 10, bitSize)
ParseUint(t, bitSize) ==
    IF t = <<>> THEN [val |-> Zero64, err |-> "syntax"]
    ELSE ParseUintFrom(t, Zero64, bitSize)

\* uint8(u)
ToUint8(u) == u[1] % Uint8Mod

(***************************************************************************)
(* encoding/hex.                                                            *)
(***************************************************************************)
\* mutant: upper-case digits
RECURSIVE HexEncodeUpper(_)
HexEncodeUpper(b) ==
    IF b = <<>> THEN <<>>
    ELSE <<HexUpper[(Head(b) \div 16) + 1], HexUpper[(Head(b) % 16) + 1]>>
         \o HexEncodeUpper(Tail(b))

\* hex.EncodeToString
RECURSIVE HexEncode(_)
HexEncode(b) ==
    IF b = <<>> THEN <<>>
    ELSE <<HexTable[(Head(b) \div 16) + 1], HexTable[(Head(b) % 16) + 1]>>
         \o HexEncode(Tail(b))

IsHex(c) == \E d \in 1..16 : HexTable[d] = c \/ HexUpper[d] = c
FromHexChar(c) == (CHOOSE d \in 1..16 : HexTable[d] = c \/ HexUpper[d] = c) - 1

ZeroKey == [i \in 1..KeyBytes |-> 0]

\* hex.Decode(pk[:], t) for a text of even length: the bytes decoded before the
\* first invalid character are written, the others keep their zero value
RECURSIVE HexDecodeFrom(_, _, _)
HexDecodeFrom(t, i, pk) ==
    IF 2 * i > Len(t) THEN [pk |-> pk, err |-> "nil"]
    ELSE IF ~IsHex(t[2 * i - 1]) \/ ~IsHex(t[2 * i]) THEN [pk |-> pk, err |-> "hex"]
    ELSE HexDecodeFrom(t, i + 1,
             [pk EXCEPT ![i] = FromHexChar(t[2 * i - 1]) * 16 + FromHexChar(t[2 * i])])

HexDecode(t) == HexDecodeFrom(t, 1, ZeroKey)

(***************************************************************************)
(* The policy algebra.                                                      *)
(***************************************************************************)
PolicyAbove(height) == [type |-> "above", height |-> height]
PolicyPublicKey(pk) == [type |-> "pk", key |-> pk]
PolicyThreshold(n, of) == [type |-> "thresh", n |-> n, of |-> of]
PolicyUnlockConditions(timelock, pks, sigsRequired) ==
    [type |-> "uc", timelock |-> timelock, keys |-> pks, sigs |-> sigsRequired]
\* SpendPolicy{}: the zero value, its Type nil
ZeroPolicy == [type |-> "nil"]

TxtAbove == <<"a", "b", "o", "v", "e">>
TxtPk == <<"p", "k">>
TxtThresh == <<"t", "h", "r", "e", "s", "h">>
TxtUc == <<"u", "c">>

\* the keys of a uc, hex-encoded, a ',' before every one but the first
RECURSIVE StringKeys(_, _)
StringKeys(pks, i) ==
    IF i > Len(pks) THEN <<>>
    ELSE (IF i > 1 THEN <<",">> ELSE <<>>) \o HexEncode(pks[i]) \o StringKeys(pks, i + 1)

\* SpendPolicy.String; the zero policy matches no case and prints as ""
RECURSIVE String(_)

\* mutant: the sub-policies are written last to first
RECURSIVE StringOfReversed(_, _)
StringOfReversed(of, i) ==
    IF i > Len(of) THEN <<>>
    ELSE (IF i > 1 THEN <<",">> ELSE <<>>) \o String(of[Len(of) + 1 - i])
         \o StringOfReversed(of, i + 1)

\* the sub-policies of a threshold, a ',' before every one but the first
RECURSIVE StringOf(_, _)
StringOf(of, i) ==
    IF i > Len(of) THEN <<>>
    ELSE (IF i > 1 THEN <<",">> ELSE <<>>) \o String(of[i]) \o StringOf(of, i + 1)

String(p) ==
    CASE p.type = "above" ->
           TxtAbove \o <<"(">> \o FormatUint(p.height) \o <<")">>
      [] p.type = "pk" ->
           TxtPk \o <<"(">> \o HexEncode(p.key) \o <<")">>
      [] p.type = "thresh" ->
           TxtThresh \o <<"(">> \o FormatUint(U64(p.n)) \o <<",", "[">>
             \o StringOf(p.of, 1) \o <<"]", ")">>
      [] p.type = "uc" ->
           TxtUc \o <<"(">> \o FormatUint(p.timelock) \o <<",", "[">>
             \o StringKeys(p.keys, 1) \o <<"]", ",">>
             \o FormatUint(U64(p.sigs)) \o <<")">>
      [] OTHER -> <<>>

(***************************************************************************)
(* The closures of ParseSpendPolicy.  Each takes the parser state           *)
(* st = [s |-> remaining text, err |-> sticky error] and returns the new    *)
(* state with its result.                                                   *)
(***************************************************************************)
NilErr == [kind |-> "nil", arg |-> <<>>]
\* the byte 0 that peek returns when there is nothing to look at
NulByte == "NUL"

\* mutant: the token is cut off even when the error is already set
nextTokenUnguarded(st) ==
    LET s1 == TrimSpace(st.s)
        i == IndexAny(s1)
    IN  IF i = -1
        THEN [s |-> s1, err |-> st.err, t |-> <<>>]
        ELSE [s |-> DropN(s1, i), err |-> st.err, t |-> SubSeq(s1, 1, i)]

nextToken(st) ==
    LET s1 == TrimSpace(st.s)
        i == IndexAny(s1)
    IN  IF st.err # NilErr \/ i = -1
        THEN [s |-> s1, err |-> st.err, t |-> <<>>]
        ELSE [s |-> DropN(s1, i), err |-> st.err, t |-> SubSeq(s1, 1, i)]

\* mutant: no early return when the error is already set
consumeUnguarded(st, b) ==
    LET s1 == TrimSpace(st.s)
    IN  IF Len(s1) = 0
        THEN [s |-> s1, err |-> [kind |-> "eof", arg |-> <<>>]]
        ELSE IF s1[1] # b
        THEN [s |-> s1, err |-> [kind |-> "expected", arg |-> <<b, s1[1]>>]]
        ELSE [s |-> DropN(s1, 1), err |-> st.err]

\* mutant: a matching byte is accepted and left in s
consumeInPlace(st, b) ==
    IF st.err # NilErr THEN st
    ELSE LET s1 == TrimSpace(st.s)
         IN  IF Len(s1) = 0
             THEN [s |-> s1, err |-> [kind |-> "eof", arg |-> <<>>]]
             ELSE IF s1[1] # b
             THEN [s |-> s1, err |-> [kind |-> "expected", arg |-> <<b, s1[1]>>]]
             ELSE [s |-> s1, err |-> st.err]

consume(st, b) ==
    IF st.err # NilErr THEN st
    ELSE LET s1 == TrimSpace(st.s)
         IN  IF Len(s1) = 0
             THEN [s |-> s1, err |-> [kind |-> "eof", arg |-> <<>>]]
             ELSE IF s1[1] # b
             THEN [s |-> s1, err |-> [kind |-> "expected", arg |-> <<b, s1[1]>>]]
             ELSE [s |-> DropN(s1, 1), err |-> st.err]

peek(st) ==
    IF st.err # NilErr \/ Len(st.s) = 0 THEN NulByte ELSE st.s[1]

parseInt(st, bitSize) ==
    LET r == nextToken(st)
    IN  IF r.err # NilErr THEN [s |-> r.s, err |-> r.err, u |-> Zero64]
        ELSE LET pu == ParseUint(r.t, bitSize)
             IN  [s |-> r.s,
                  err |-> IF pu.err = "nil" THEN NilErr
                          ELSE [kind |-> pu.err, arg |-> r.t],
                  u |-> pu.val]

\* mutant: the length of the token is not checked
parsePubkeyNoLength(st) ==
    LET r == nextToken(st)
    IN  IF r.err # NilErr THEN [s |-> r.s, err |-> r.err, pk |-> ZeroKey]
        ELSE LET d == HexDecode(r.t)
             IN  [s |-> r.s,
                  err |-> IF d.err = "nil" THEN NilErr
                          ELSE [kind |-> "hex", arg |-> r.t],
                  pk |-> d.pk]

parsePubkey(st) ==
    LET r == nextToken(st)
    IN  IF r.err # NilErr THEN [s |-> r.s, err |-> r.err, pk |-> ZeroKey]
        ELSE IF Len(r.t) # PubKeyHexLen
        THEN [s |-> r.s,
              err |-> [kind |-> "length", arg |-> FormatUint(U64(Len(r.t)))],
              pk |-> ZeroKey]
        ELSE LET d == HexDecode(r.t)
             IN  [s |-> r.s,
                  err |-> IF d.err = "nil" THEN NilErr
                          ELSE [kind |-> "hex", arg |-> r.t],
                  pk |-> d.pk]

(***************************************************************************)
(* State.  The parser: the text under test and how it was built (tcase),    *)
(* the remaining text s, the sticky error err, the stack of running         *)
(* parseSpendPolicy calls, the policy p returned by the outermost one, and  *)
(* the position pc of ParseSpendPolicy itself.  root(): the unlock          *)
(* conditions uc, the subtree array trees, the leaf counter numLeaves, the   *)
(* number of leaves handed to addLeaf so far, the position rpc and the       *)
(* returned digest.  smux: the *Config handed to the function called, the   *)
(* *Session and error it returned, and its position mpc.  Address(): for     *)
(* each call in flight its argument acall, its position apc, the hasher it   *)
(* holds, the hasher it checked out (used) and its result ares; the idle     *)
(* hashers of hasherPool and the bytes each hasher has been written (hbuf).  *)
(***************************************************************************)
VARIABLES tcase, s, err, stack, p, pc,
          uc, trees, numLeaves, added, rpc, root,
          config, session, cerr, called, mpc,
          acall, apc, hasher, used, ares, pool, hbuf

parseVars == <<tcase, s, err, stack, p, pc>>
rootVars == <<uc, trees, numLeaves, added, rpc, root>>
muxVars == <<config, session, cerr, called, mpc>>
addrVars == <<acall, apc, hasher, used, ares, pool, hbuf>>
vars == <<tcase, s, err, stack, p, pc, uc, trees, numLeaves, added, rpc, root,
          config, session, cerr, called, mpc,
          acall, apc, hasher, used, ares, pool, hbuf>>

\* a nil *Config and a nil *Session; a pointer that is not nil is <<value>>
NilConfig == <<>>
NilSession == <<>>

\* no smux function is called
MuxIdle ==
    /\ config = NilConfig
    /\ session = NilSession
    /\ cerr = [kind |-> "nil", arg |-> <<>>]
    /\ called = "none"
    /\ mpc = "idle"

\* no call of Address is in flight
AddrIdle ==
    /\ acall = <<>>
    /\ apc = <<>>
    /\ hasher = <<>>
    /\ used = <<>>
    /\ ares = <<>>
    /\ pool = {}
    /\ hbuf = <<>>

(***************************************************************************)
(* ParseSpendPolicy, one action per step of the recursive descent.          *)
(***************************************************************************)
\* the locals of one parseSpendPolicy call
NewFrame ==
    [pc |-> "type", typ |-> <<>>, num |-> Zero64, of |-> <<>>, pks |-> <<>>,
     ret |-> ZeroPolicy]

St == [s |-> s, err |-> err]
Top == stack[Len(stack)]
SetTop(f) == [stack EXCEPT ![Len(stack)] = f]
Running(at) == pc = "parse" /\ stack # <<>> /\ Top.pc = at

\* typ := nextToken()
ReadType ==
    /\ Running("type")
    /\ LET r == nextToken(St)
       IN  /\ s' = r.s
           /\ err' = r.err
           /\ stack' = SetTop([Top EXCEPT !.typ = r.t, !.pc = "open"])
    /\ UNCHANGED <<tcase, p, pc, rootVars, muxVars, addrVars>>

\* consume('('), and the deferred consume(')') is registered
Open ==
    /\ Running("open")
    /\ LET r == consume(St, "(")
       IN  /\ s' = r.s
           /\ err' = r.err
           /\ stack' = SetTop([Top EXCEPT !.pc = "switch"])
    /\ UNCHANGED <<tcase, p, pc, rootVars, muxVars, addrVars>>

\* mutant: the default case of the switch reports nothing
DispatchSilent ==
    /\ Running("switch")
    /\ LET to == CASE Top.typ = TxtAbove -> "above"
                   [] Top.typ = TxtPk -> "pk"
                   [] Top.typ = TxtThresh -> "thresh_n"
                   [] Top.typ = TxtUc -> "uc_timelock"
                   [] OTHER -> "close"
       IN  stack' = SetTop([Top EXCEPT !.pc = to, !.ret = ZeroPolicy])
    /\ UNCHANGED <<tcase, s, err, p, pc, rootVars, muxVars, addrVars>>

\* switch typ; the default case reports the type unless an error is already set
Dispatch ==
    /\ Running("switch")
    /\ LET known == Top.typ \in {TxtAbove, TxtPk, TxtThresh, TxtUc}
           to == CASE Top.typ = TxtAbove -> "above"
                   [] Top.typ = TxtPk -> "pk"
                   [] Top.typ = TxtThresh -> "thresh_n"
                   [] Top.typ = TxtUc -> "uc_timelock"
                   [] OTHER -> "close"
       IN  /\ err' = IF ~known /\ err = NilErr
                     THEN [kind |-> "unrecognized", arg |-> Top.typ]
                     ELSE err
           /\ stack' = SetTop([Top EXCEPT !.pc = to, !.ret = ZeroPolicy])
    /\ UNCHANGED <<tcase, s, p, pc, rootVars, muxVars, addrVars>>

\* return PolicyAbove(parseInt(64))
ParseAbove ==
    /\ Running("above")
    /\ LET r == parseInt(St, 64)
       IN  /\ s' = r.s
           /\ err' = r.err
           /\ stack' = SetTop([Top EXCEPT !.ret = PolicyAbove(r.u), !.pc = "close"])
    /\ UNCHANGED <<tcase, p, pc, rootVars, muxVars, addrVars>>

\* return PolicyPublicKey(parsePubkey())
ParsePk ==
    /\ Running("pk")
    /\ LET r == parsePubkey(St)
       IN  /\ s' = r.s
           /\ err' = r.err
           /\ stack' = SetTop([Top EXCEPT !.ret = PolicyPublicKey(r.pk), !.pc = "close"])
    /\ UNCHANGED <<tcase, p, pc, rootVars, muxVars, addrVars>>

\* n := parseInt(8)
ThreshN ==
    /\ Running("thresh_n")
    /\ LET r == parseInt(St, 8)
       IN  /\ s' = r.s
           /\ err' = r.err
           /\ stack' = SetTop([Top EXCEPT !.num = r.u, !.pc = "thresh_comma"])
    /\ UNCHANGED <<tcase, p, pc, rootVars, muxVars, addrVars>>

\* timelock := parseInt(64)
UcTimelock ==
    /\ Running("uc_timelock")
    /\ LET r == parseInt(St, 64)
       IN  /\ s' = r.s
           /\ err' = r.err
           /\ stack' = SetTop([Top EXCEPT !.num = r.u, !.pc = "uc_comma"])
    /\ UNCHANGED <<tcase, p, pc, rootVars, muxVars, addrVars>>

\* the consume calls between the fields: at, the byte, the next position
ConsumeTable ==
    { <<"thresh_comma", ",", "thresh_loop_open">>,
      <<"thresh_loop_open", "[", "thresh_loop">>,
      <<"uc_comma", ",", "uc_loop_open">>,
      <<"uc_loop_open", "[", "uc_loop">>,
      <<"uc_close", "]", "uc_comma2">>,
      <<"uc_comma2", ",", "uc_sigs">> }

ConsumeDelim ==
    /\ \E e \in ConsumeTable :
         /\ Running(e[1])
         /\ LET r == consume(St, e[2])
            IN  /\ s' = r.s
                /\ err' = r.err
                /\ stack' = SetTop([Top EXCEPT !.pc = e[3]])
    /\ UNCHANGED <<tcase, p, pc, rootVars, muxVars, addrVars>>

\* for err == nil && peek() != ']': the body starts with the recursive call
ThreshLoop ==
    /\ Running("thresh_loop")
    /\ stack' = IF err = NilErr /\ peek(St) # "]"
                THEN Append(SetTop([Top EXCEPT !.pc = "thresh_sep"]), NewFrame)
                ELSE SetTop([Top EXCEPT !.pc = "thresh_close"])
    /\ UNCHANGED <<tcase, s, err, p, pc, rootVars, muxVars, addrVars>>

\* the deferred consume(')') runs and the call returns: to the append of the
\* caller's loop, or to ParseSpendPolicy
Return ==
    /\ Running("close")
    /\ LET r == consume(St, ")")
           n == Len(stack)
       IN  /\ s' = r.s
           /\ err' = r.err
           /\ IF n = 1
              THEN /\ stack' = <<>>
                   /\ p' = Top.ret
                   /\ pc' = "trailing"
              ELSE /\ stack' = [SubSeq(stack, 1, n - 1) EXCEPT
                                  ![n - 1].of = Append(@, Top.ret)]
                   /\ UNCHANGED <<p, pc>>
    /\ UNCHANGED <<tcase, rootVars, muxVars, addrVars>>

\* if peek() != ']' { consume(',') }
ThreshSep ==
    /\ Running("thresh_sep")
    /\ LET r == IF peek(St) # "]" THEN consume(St, ",") ELSE St
       IN  /\ s' = r.s
           /\ err' = r.err
           /\ stack' = SetTop([Top EXCEPT !.pc = "thresh_loop"])
    /\ UNCHANGED <<tcase, p, pc, rootVars, muxVars, addrVars>>

\* consume(']'); return PolicyThreshold(uint8(n), of)
ThreshEnd ==
    /\ Running("thresh_close")
    /\ LET r == consume(St, "]")
       IN  /\ s' = r.s
           /\ err' = r.err
           /\ stack' = SetTop([Top EXCEPT
                  !.ret = PolicyThreshold(ToUint8(Top.num), Top.of), !.pc = "close"])
    /\ UNCHANGED <<tcase, p, pc, rootVars, muxVars, addrVars>>

\* for err == nil && peek() != ']'
UcLoop ==
    /\ Running("uc_loop")
    /\ stack' = IF err = NilErr /\ peek(St) # "]"
                THEN SetTop([Top EXCEPT !.pc = "uc_key"])
                ELSE SetTop([Top EXCEPT !.pc = "uc_close"])
    /\ UNCHANGED <<tcase, s, err, p, pc, rootVars, muxVars, addrVars>>

\* pks = append(pks, parsePubkey())
UcKey ==
    /\ Running("uc_key")
    /\ LET r == parsePubkey(St)
       IN  /\ s' = r.s
           /\ err' = r.err
           /\ stack' = SetTop([Top EXCEPT !.pks = Append(@, r.pk), !.pc = "uc_sep"])
    /\ UNCHANGED <<tcase, p, pc, rootVars, muxVars, addrVars>>

\* if peek() != ']' { consume(',') }
UcSep ==
    /\ Running("uc_sep")
    /\ LET r == IF peek(St) # "]" THEN consume(St, ",") ELSE St
       IN  /\ s' = r.s
           /\ err' = r.err
           /\ stack' = SetTop([Top EXCEPT !.pc = "uc_loop"])
    /\ UNCHANGED <<tcase, p, pc, rootVars, muxVars, addrVars>>

\* sigsRequired := parseInt(8); return SpendPolicy{PolicyTypeUnlockConditions{...}}
UcSigs ==
    /\ Running("uc_sigs")
    /\ LET r == parseInt(St, 8)
       IN  /\ s' = r.s
           /\ err' = r.err
           /\ stack' = SetTop([Top EXCEPT
                  !.ret = PolicyUnlockConditions(Top.num, Top.pks, ToUint8(r.u)),
                  !.pc = "close"])
    /\ UNCHANGED <<tcase, p, pc, rootVars, muxVars, addrVars>>

\* mutant: what is left of the text is not looked at
TrailingIgnored ==
    /\ pc = "trailing"
    /\ pc' = "done"
    /\ UNCHANGED <<tcase, s, err, stack, p, rootVars, muxVars, addrVars>>

\* if err == nil && len(s) > 0 { err = "trailing bytes" }; return p, err
Trailing ==
    /\ pc = "trailing"
    /\ err' = IF err = NilErr /\ Len(s) > 0
              THEN [kind |-> "trailing", arg |-> s]
              ELSE err
    /\ pc' = "done"
    /\ UNCHANGED <<tcase, s, stack, p, rootVars, muxVars, addrVars>>

ParseNext ==
    \/ ReadType \/ Open \/ Dispatch \/ ParseAbove \/ ParsePk
    \/ ThreshN \/ UcTimelock \/ ConsumeDelim \/ ThreshLoop \/ Return
    \/ ThreshSep \/ ThreshEnd \/ UcLoop \/ UcKey \/ UcSep \/ UcSigs \/ Trailing

(***************************************************************************)
(* The texts ParseSpendPolicy is run on.  A test case is a policy (its      *)
(* String() is the text), a policy with one edit of its String(), or a      *)
(* text tree: a text of the grammar                                         *)
(*   above(<height>)  pk(<hex>)  thresh(<n>,[<policy>,...])                 *)
(*   uc(<timelock>,[<hex>,...],<sigsRequired>)                              *)
(* with its number and key tokens chosen freely.                            *)
(***************************************************************************)
Lists(S, n) == UNION {[1..k -> S] : k \in 0..n}

KeyA == [i \in 1..KeyBytes |-> 0]
KeyC == [i \in 1..KeyBytes |-> (i * 37 + 171) % Uint8Mod]
Keys == {KeyA, KeyC}
Heights == {Zero64, U64(5), U64(70000), <<1, 2, 3, 4>>, MaxUint64}
Counts == {0, 1, 2, 255}

AtomPolicies ==
    {PolicyAbove(h) : h \in Heights}
    \cup {PolicyPublicKey(k) : k \in Keys}
    \cup {PolicyUnlockConditions(tl, ks, sg) :
            tl \in {Zero64, MaxUint64}, ks \in Lists(Keys, MaxList), sg \in {0, 255}}
SubPolicies ==
    {PolicyAbove(U64(5)), PolicyPublicKey(KeyC),
     PolicyUnlockConditions(Zero64, <<KeyA>>, 1),
     PolicyThreshold(0, <<>>),
     PolicyThreshold(2, <<PolicyPublicKey(KeyA), PolicyAbove(MaxUint64)>>)}
Policies ==
    AtomPolicies
    \cup {PolicyThreshold(n, of) : n \in Counts, of \in Lists(SubPolicies, MaxList)}

\* the policies whose String() is edited
EditBases ==
    {PolicyAbove(U64(5)),
     PolicyThreshold(0, <<>>),
     PolicyThreshold(1, <<PolicyAbove(U64(1))>>),
     PolicyThreshold(2, <<PolicyAbove(U64(1)), PolicyThreshold(0, <<>>)>>),
     PolicyUnlockConditions(Zero64, <<>>, 0),
     PolicyUnlockConditions(U64(7), <<KeyC>>, 1),
     PolicyPublicKey(KeyA)}

NoEdit == [kind |-> "none", pos |-> 0, txt |-> <<>>]
InsertTexts == {<<" ">>, <<"\t">>, <<",">>, <<"x">>, <<")">>}
Suffixes == {<<"x", "y", "z">>, <<" ">>, <<" ", "\n">>, <<" ", "x">>, <<"x", " ">>,
             <<")">>, <<",">>}

\* texts whose type name, at the top or inside a threshold, is none of the four
TxtFoo == <<"f", "o", "o">>
RawTexts ==
    {<<"(", ")">>,
     TxtFoo \o <<"(", ")">>,
     <<"A">> \o DropN(TxtAbove, 1) \o <<"(", "5", ")">>,
     TxtThresh \o <<"(", "1", ",", "[", "(", ")", "]", ")">>,
     TxtThresh \o <<"(", "1", ",", "[">> \o TxtFoo \o <<"(", ")", "]", ")">>,
     TxtThresh \o <<"(", "2", ",", "[">> \o TxtFoo \o <<"(", ")", ",">>
        \o TxtAbove \o <<"(", "1", ")", "]", ")">>}

\* text with e.txt put in after its first e.pos characters, or with the
\* character after them taken out
Edit(text, e) ==
    CASE e.kind = "insert" -> SubSeq(text, 1, e.pos) \o e.txt \o DropN(text, e.pos)
      [] e.kind = "delete" -> SubSeq(text, 1, e.pos) \o DropN(text, e.pos + 1)
      [] OTHER -> text

Tree(k, num, key, keys, of, sigs) ==
    [k |-> k, num |-> num, key |-> key, keys |-> keys, of |-> of, sigs |-> sigs]
TAbove(num) == Tree("above", num, <<>>, <<>>, <<>>, <<>>)
TPk(key) == Tree("pk", <<>>, key, <<>>, <<>>, <<>>)
TThresh(num, of) == Tree("thresh", num, <<>>, <<>>, of, <<>>)
TUc(num, keys, sigs) == Tree("uc", num, <<>>, keys, <<>>, sigs)
NoTree == Tree("none", <<>>, <<>>, <<>>, <<>>, <<>>)

RECURSIVE JoinComma(_, _)
JoinComma(texts, i) ==
    IF i > Len(texts) THEN <<>>
    ELSE (IF i > 1 THEN <<",">> ELSE <<>>) \o texts[i] \o JoinComma(texts, i + 1)

\* the text of a text tree
RECURSIVE Render(_)
Render(tr) ==
    CASE tr.k = "above" -> TxtAbove \o <<"(">> \o tr.num \o <<")">>
      [] tr.k = "pk" -> TxtPk \o <<"(">> \o tr.key \o <<")">>
      [] tr.k = "thresh" ->
           TxtThresh \o <<"(">> \o tr.num \o <<",", "[">>
             \o JoinComma([i \in 1..Len(tr.of) |-> Render(tr.of[i])], 1)
             \o <<"]", ")">>
      [] tr.k = "uc" ->
           TxtUc \o <<"(">> \o tr.num \o <<",", "[">> \o JoinComma(tr.keys, 1)
             \o <<"]", ",">> \o tr.sigs \o <<")">>
      [] OTHER -> <<>>

Tok5 == <<"5">>
Tok007 == <<"0", "0", "7">>
TokMax64 == <<"1", "8", "4", "4", "6", "7", "4", "4", "0", "7", "3", "7", "0", "9", "5", "5", "1", "6", "1", "5">>
TokOver64 == <<"1", "8", "4", "4", "6", "7", "4", "4", "0", "7", "3", "7", "0", "9", "5", "5", "1", "6", "1", "6">>
TokNines == <<"9", "9", "9", "9", "9", "9", "9", "9", "9", "9", "9", "9", "9", "9", "9", "9", "9", "9", "9", "9">>
TokLong == <<"1", "0", "0", "0", "0", "0", "0", "0", "0", "0", "0", "0", "0", "0", "0", "0", "0", "0", "0", "0", "0">>
Tok02 == <<"0", "2">>
Tok255 == <<"2", "5", "5">>
Tok256 == <<"2", "5", "6">>
Tok1000 == <<"1", "0", "0", "0">>
NumToks64 == {<<"0">>, Tok5, Tok007, TokMax64, TokOver64, TokNines, TokLong}
NumToks8 == {<<"0">>, <<"1">>, Tok02, Tok255, Tok256, Tok1000}

\* key tokens: two well-formed ones (one in upper case), and malformed ones
KeyTokA == [i \in 1..PubKeyHexLen |-> "0"]
KeyTokC == [i \in 1..PubKeyHexLen |->
              HexUpper[(IF i % 2 = 1 THEN KeyC[(i + 1) \div 2] \div 16
                                     ELSE KeyC[i \div 2] % 16) + 1]]
KeyTokShort == [i \in 1..(PubKeyHexLen - 1) |-> "1"]
KeyTokLong == [i \in 1..(PubKeyHexLen + 1) |-> "1"]
KeyTokNotHex == [i \in 1..PubKeyHexLen |-> IF i = 4 THEN "g" ELSE "1"]
GoodKeyToks == {KeyTokA, KeyTokC}
BadKeyToks == {<<>>, <<"0", "0">>, KeyTokShort, KeyTokLong, KeyTokNotHex}
KeyToks == GoodKeyToks \cup BadKeyToks

SubTrees ==
    {TAbove(Tok007), TAbove(TokOver64), TPk(KeyTokC), TPk(<<"0", "0">>),
     TUc(<<"0">>, <<KeyTokA, KeyTokNotHex>>, <<"1">>),
     TThresh(<<"1">>, <<TPk(KeyTokShort)>>),
     TThresh(Tok02, <<TAbove(TokMax64), TPk(KeyTokA)>>)}
Trees ==
    {TAbove(n) : n \in NumToks64}
    \cup {TPk(k) : k \in KeyToks}
    \cup {TUc(n, ks, sg) : n \in NumToks64, ks \in {<<>>, <<KeyTokC>>}, sg \in NumToks8}
    \cup {TUc(<<"0">>, ks, <<"1">>) : ks \in Lists(KeyToks, MaxList)}
    \cup {TThresh(n, of) : n \in NumToks8, of \in Lists(SubTrees, MaxList)}

Case(fam, pol, tr, e) == [fam |-> fam, p |-> pol, t |-> tr, edit |-> e]
TestCases ==
    {Case("policy", q, NoTree, NoEdit) : q \in Policies}
    \cup {Case("tree", ZeroPolicy, tr, NoEdit) : tr \in Trees}
    \cup UNION {{Case("insert", q, NoTree, [kind |-> "insert", pos |-> j, txt |-> x]) :
                   j \in 0..Len(String(q)), x \in InsertTexts} : q \in EditBases}
    \cup UNION {{Case("delete", q, NoTree, [kind |-> "delete", pos |-> j, txt |-> <<>>]) :
                   j \in 0..(Len(String(q)) - 1)} : q \in EditBases}
    \cup {Case("suffix", q, NoTree,
               [kind |-> "insert", pos |-> Len(String(q)), txt |-> x]) :
            q \in EditBases, x \in Suffixes}
    \cup {Case("text", ZeroPolicy, NoTree, [kind |-> "insert", pos |-> 0, txt |-> x]) :
            x \in RawTexts}

\* the argument of ParseSpendPolicy
InputText(c) ==
    CASE c.fam = "tree" -> Render(c.t)
      [] c.fam = "text" -> c.edit.txt
      [] OTHER -> Edit(String(c.p), c.edit)

NoUc == PolicyUnlockConditions(Zero64, <<>>, 0)
\* the zero value of Hash256
ZeroHash == [h |-> <<>>, kids |-> <<>>]
RootIdle ==
    /\ uc = NoUc
    /\ trees = [i \in 0..(NumTrees - 1) |-> ZeroHash]
    /\ numLeaves = 0
    /\ added = 0
    /\ rpc = "idle"
    /\ root = ZeroHash

ParseInit ==
    /\ tcase \in TestCases
    /\ s = InputText(tcase)
    /\ err = NilErr
    /\ stack = <<NewFrame>>
    /\ p = ZeroPolicy
    /\ pc = "parse"
    /\ RootIdle
    /\ MuxIdle
    /\ AddrIdle

SpecParse == ParseInit /\ [][ParseNext]_vars

Done == pc = "done"

(***************************************************************************)
(* PolicyTypeUnlockConditions.root: the legacy Merkle accumulator.          *)
(***************************************************************************)
\* HashBytes of bytes followed by digests
HashBytes(bytes, digests) == [h |-> bytes, kids |-> digests]

\* binary.LittleEndian.PutUint64
LE64(u) ==
    [i \in 1..8 |-> IF i % 2 = 1 THEN u[(i + 1) \div 2] % Uint8Mod
                                 ELSE u[i \div 2] \div Uint8Mod]

\* "ed25519" padded with NUL to 16 bytes
Specifier == <<101, 100, 50, 53, 53, 49, 57, 0, 0, 0, 0, 0, 0, 0, 0, 0>>

uint64Leaf(u) == HashBytes(<<0>> \o LE64(u), <<>>)
pubkeyLeaf(pk) == HashBytes(<<0>> \o Specifier \o LE64(U64(Len(pk))) \o pk, <<>>)
nodeHash(left, right) == HashBytes(<<1>>, <<left, right>>)

RECURSIVE Pow2(_)
Pow2(i) == IF i = 0 THEN 1 ELSE 2 * Pow2(i - 1)

\* numLeaves&(1<<i) != 0 in uint8 arithmetic: 1<<i is 0 from i = 8 on
BitSet(n, i) == i < NumTrees /\ (n \div Pow2(i)) % 2 = 1

\* the loop of addLeaf with the operands of nodeHash exchanged
RECURSIVE addLeafLoopSwapped(_, _, _, _)
addLeafLoopSwapped(tr, n, h, i) ==
    IF BitSet(n, i) THEN addLeafLoopSwapped(tr, n, nodeHash(h, tr[i]), i + 1)
    ELSE [i |-> i, h |-> h]

\* the loop of addLeaf from slot i on: the slot the digest ends in, and the digest
RECURSIVE addLeafLoop(_, _, _, _)
addLeafLoop(tr, n, h, i) ==
    IF BitSet(n, i) THEN addLeafLoop(tr, n, nodeHash(tr[i], h), i + 1)
    ELSE [i |-> i, h |-> h]

\* addLeaf on the accumulator acc = [trees, numLeaves]; trees[i] = h panics
\* when i is not below len(trees)
addLeaf(acc, h) ==
    LET r == addLeafLoop(acc.trees, acc.numLeaves, h, 0)
    IN  IF r.i >= NumTrees
        THEN [trees |-> acc.trees, numLeaves |-> acc.numLeaves, panic |-> TRUE]
        ELSE [trees |-> [acc.trees EXCEPT ![r.i] = r.h],
              numLeaves |-> (acc.numLeaves + 1) % Uint8Mod,
              panic |-> FALSE]

\* bits.TrailingZeros8: 8 for 0
RECURSIVE TrailingZeros8From(_, _)
TrailingZeros8From(n, i) ==
    IF i >= NumTrees \/ BitSet(n, i) THEN i ELSE TrailingZeros8From(n, i + 1)
TrailingZeros8(n) == TrailingZeros8From(n, 0)

RECURSIVE treeRootLoop(_, _, _, _)
treeRootLoop(tr, n, r, i) ==
    IF i >= NumTrees THEN r
    ELSE treeRootLoop(tr, n, IF BitSet(n, i) THEN nodeHash(tr[i], r) ELSE r, i + 1)

\* treeRoot; root := trees[i] panics when i is not below len(trees)
treeRoot(acc) ==
    LET i == TrailingZeros8(acc.numLeaves)
    IN  IF i >= NumTrees THEN [root |-> ZeroHash, panic |-> TRUE]
        ELSE [root |-> treeRootLoop(acc.trees, acc.numLeaves, acc.trees[i], i + 1),
              panic |-> FALSE]

Acc == [trees |-> trees, numLeaves |-> numLeaves]

\* one addLeaf call of root(), then on to position `to`
AddLeafStep(h, to) ==
    LET r == addLeaf(Acc, h)
    IN  /\ trees' = r.trees
        /\ numLeaves' = r.numLeaves
        /\ added' = added + 1
        /\ rpc' = IF r.panic THEN "panic" ELSE to
        /\ UNCHANGED <<uc, root, parseVars, muxVars, addrVars>>

\* addLeaf(uint64Leaf(uc.Timelock))
AddTimelock ==
    /\ rpc = "timelock"
    /\ AddLeafStep(uint64Leaf(uc.timelock), "keys")

\* for _, key := range uc.PublicKeys { addLeaf(pubkeyLeaf(key)) }
AddKey ==
    /\ rpc = "keys"
    /\ added <= Len(uc.keys)
    /\ AddLeafStep(pubkeyLeaf(uc.keys[added]), "keys")

\* addLeaf(uint64Leaf(uint64(uc.SignaturesRequired)))
AddSigs ==
    /\ rpc = "keys"
    /\ added > Len(uc.keys)
    /\ AddLeafStep(uint64Leaf(U64(uc.sigs)), "treeRoot")

\* return treeRoot()
TreeRoot ==
    /\ rpc = "treeRoot"
    /\ LET r == treeRoot(Acc)
       IN  /\ root' = r.root
           /\ rpc' = IF r.panic THEN "panic" ELSE "done"
    /\ UNCHANGED <<uc, trees, numLeaves, added, parseVars, muxVars, addrVars>>

RootNext == AddTimelock \/ AddKey \/ AddSigs \/ TreeRoot

\* the number of keys with which root() adds Uint8Mod leaves
WrapKeys == Uint8Mod - 2

UcInputs ==
    {PolicyUnlockConditions(tl, ks, sg) :
        tl \in {Zero64, MaxUint64}, ks \in Lists(Keys, MaxKeys), sg \in {0, 2}}
    \cup {PolicyUnlockConditions(Zero64, [i \in 1..m |-> KeyC], 1) :
            m \in {WrapKeys - 1, WrapKeys}}

ParseIdle ==
    /\ tcase = Case("none", ZeroPolicy, NoTree, NoEdit)
    /\ s = <<>>
    /\ err = NilErr
    /\ stack = <<>>
    /\ p = ZeroPolicy
    /\ pc = "idle"

RootInit ==
    /\ uc \in UcInputs
    /\ trees = [i \in 0..(NumTrees - 1) |-> ZeroHash]
    /\ numLeaves = 0
    /\ added = 0
    /\ rpc = "timelock"
    /\ root = ZeroHash
    /\ ParseIdle
    /\ MuxIdle
    /\ AddrIdle

SpecRoot == RootInit /\ [][RootNext]_vars

(***************************************************************************)
(* smux: DefaultConfig, VerifyConfig, Server and Client.  A time.Duration   *)
(* is counted in seconds: VerifyConfig only compares durations with zero    *)
(* and with each other.                                                     *)
(***************************************************************************)
DefaultConfig ==
    [KeepAliveInterval |-> 10,
     KeepAliveTimeout |-> 120,
     MaxFrameSize |-> 4096,
     MaxReceiveBuffer |-> 4194304,
     ReadTimeout |-> 120,
     WriteTimeout |-> 120]

MaxFrame == 65535

\* errors.New(msg), fmt.Errorf(msg)
ConfigErr(msg) == [kind |-> "config", arg |-> <<msg>>]

VerifyConfig(c) ==
    IF c.KeepAliveInterval = 0
    THEN ConfigErr("keep-alive interval must be positive")
    ELSE IF c.KeepAliveTimeout < c.KeepAliveInterval
    THEN ConfigErr("keep-alive timeout must be larger than keep-alive interval")
    ELSE IF c.MaxFrameSize <= 0
    THEN ConfigErr("max frame size must be positive")
    ELSE IF c.MaxFrameSize > MaxFrame
    THEN ConfigErr("max frame size must not be larger than 65535")
    ELSE IF c.MaxReceiveBuffer <= 0
    THEN ConfigErr("max receive buffer must be positive")
    ELSE NilErr

\* newSession(config, conn, client): the session keeps its configuration and side
newSession(c, client) == <<[config |-> c, client |-> client]>>

\* mutant: the session is made without VerifyConfig
OpenSessionUnverified(cp, client) ==
    LET c == IF cp = NilConfig THEN DefaultConfig ELSE cp[1]
    IN  [session |-> newSession(c, client), err |-> NilErr]

\* the body Server and Client share: config defaults to DefaultConfig() when
\* nil, VerifyConfig decides, and only then newSession is called
OpenSession(cp, client) ==
    LET c == IF cp = NilConfig THEN DefaultConfig ELSE cp[1]
        e == VerifyConfig(c)
    IN  IF e # NilErr THEN [session |-> NilSession, err |-> e]
        ELSE [session |-> newSession(c, client), err |-> NilErr]

Server(cp) == OpenSession(cp, FALSE)
Client(cp) == OpenSession(cp, TRUE)

\* VerifyConfig(config), as TestConfig calls it
CallVerifyConfig ==
    /\ mpc = "call"
    /\ config # NilConfig
    /\ called' = "VerifyConfig"
    /\ cerr' = VerifyConfig(config[1])
    /\ mpc' = "returned"
    /\ UNCHANGED <<config, session, parseVars, rootVars, addrVars>>

\* Server(conn, config)
CallServer ==
    /\ mpc = "call"
    /\ called' = "Server"
    /\ session' = Server(config).session
    /\ cerr' = Server(config).err
    /\ mpc' = "returned"
    /\ UNCHANGED <<config, parseVars, rootVars, addrVars>>

\* Client(conn, config)
CallClient ==
    /\ mpc = "call"
    /\ called' = "Client"
    /\ session' = Client(config).session
    /\ cerr' = Client(config).err
    /\ mpc' = "returned"
    /\ UNCHANGED <<config, parseVars, rootVars, addrVars>>

MuxNext == CallVerifyConfig \/ CallServer \/ CallClient

\* the configurations tried: every field below, at and above the values
\* VerifyConfig compares it with
Intervals == {-1, 0, 10}
Timeouts == {-1, 0, 5, 10, 120}
FrameSizes == {-1, 0, 1, 4096, MaxFrame, MaxFrame + 1}
BufferSizes == {-1, 0, 1, 4194304}
Configs ==
    [KeepAliveInterval : Intervals,
     KeepAliveTimeout : Timeouts,
     MaxFrameSize : FrameSizes,
     MaxReceiveBuffer : BufferSizes,
     ReadTimeout : {120},
     WriteTimeout : {120}]

(***************************************************************************)
(* Address() and StandardAddress(), NumCalls calls in flight at once over   *)
(* the one hasherPool.  A hasher is a number; hbuf[h] is what has been       *)
(* written to hasher h since it was last reset.                             *)
(***************************************************************************)
NumCalls == 2
Calls == 1..NumCalls
\* a call takes at most one hasher, and one may lie in the pool beforehand
Hashers == 1..(NumCalls + 1)
NoHasher == 0

\* "sia/address"
AddressDomain == <<115, 105, 97, 47, 97, 100, 100, 114, 101, 115, 115>>

\* the canonical encoding: a Threshold is its tag, n, the count and the
\* encodings of its sub-policies in order; Above its tag and height; PublicKey
\* its tag and key bytes; UnlockConditions its tag and fields in order
\* the first n of the byte strings parts, one after the other
RECURSIVE Cat(_, _)
Cat(parts, n) == IF n = 0 THEN <<>> ELSE Cat(parts, n - 1) \o parts[n]

RECURSIVE EncodeTo(_)
EncodeTo(q) ==
    CASE q.type = "above" -> <<1>> \o LE64(q.height)
      [] q.type = "pk" -> <<2>> \o q.key
      [] q.type = "thresh" ->
            <<3, q.n>> \o LE64(U64(Len(q.of)))
                \o Cat([i \in 1..Len(q.of) |-> EncodeTo(q.of[i])], Len(q.of))
      [] q.type = "uc" ->
            <<4>> \o LE64(q.timelock) \o LE64(U64(Len(q.keys)))
                \o Cat(q.keys, Len(q.keys)) \o <<q.sigs>>

\* Hasher.Sum over what has been written
Sum(buf) == HashBytes(buf, <<>>)

\* the leaves root() hands to addLeaf, in order
rootLeaves(u) ==
    <<uint64Leaf(u.timelock)>>
      \o [i \in 1..Len(u.keys) |-> pubkeyLeaf(u.keys[i])]
      \o <<uint64Leaf(U64(u.sigs))>>

\* the accumulator acc after addLeaf of hs[lo], ..., hs[hi] in order; a panic
\* of addLeaf ends the run
RECURSIVE addLeaves(_, _, _, _)
addLeaves(acc, hs, lo, hi) ==
    IF lo > hi \/ acc.panic THEN acc
    ELSE IF lo = hi THEN addLeaf(acc, hs[lo])
    ELSE LET mid == (lo + hi) \div 2
             left == addLeaves(acc, hs, lo, mid)
         IN  addLeaves(left, hs, mid + 1, hi)

\* root() as one computation: every leaf is added, then treeRoot()
ucRoot(u) ==
    LET hs == rootLeaves(u)
        last == addLeaves([trees |-> [i \in 0..(NumTrees - 1) |-> ZeroHash],
                           numLeaves |-> 0, panic |-> FALSE], hs, 1, Len(hs))
    IN  IF last.panic THEN [addr |-> ZeroHash, panic |-> TRUE]
        ELSE [addr |-> treeRoot(last).root, panic |-> treeRoot(last).panic]

\* the calls made: Address() on a policy, or StandardAddress() on a key
AddressOf(q) == [fn |-> "Address", p |-> q, pk |-> ZeroKey]
StandardAddressOf(k) == [fn |-> "StandardAddress", p |-> ZeroPolicy, pk |-> k]
AddrCalls ==
    <<AddressOf(PolicyAbove(U64(5))),
      AddressOf(PolicyThreshold(1,
          <<PolicyUnlockConditions(U64(7), <<KeyC>>, 1), PolicyAbove(U64(1))>>)),
      AddressOf(PolicyUnlockConditions(U64(7), <<KeyA, KeyC>>, 1)),
      AddressOf(PolicyPublicKey(KeyC)),
      StandardAddressOf(KeyC),
      AddressOf(PolicyThreshold(0, <<>>)),
      AddressOf(PolicyUnlockConditions(Zero64, [i \in 1..WrapKeys |-> KeyC], 1))>>

\* every call is tried as the first of the calls in flight, next to others on
\* an Above, on a Threshold holding unlock conditions, and on unlock conditions
ArgsOf(i) == IF i = 1 THEN 1..Len(AddrCalls) ELSE 1..3

Arg(i) == AddrCalls[acall[i]]
\* the receiver of Address(): StandardAddress(pk) is PolicyPublicKey(pk).Address()
Receiver(i) ==
    IF Arg(i).fn = "StandardAddress" THEN PolicyPublicKey(Arg(i).pk) ELSE Arg(i).p

NoResult == [addr |-> ZeroHash, panic |-> FALSE]
Held == {hasher[i] : i \in Calls} \ {NoHasher}

\* mutant: unlock conditions are hashed like every other policy
AddressAlwaysHashed(i) ==
    /\ apc[i] = "call"
    /\ apc' = [apc EXCEPT ![i] = "get"]
    /\ UNCHANGED <<acall, hasher, used, ares, pool, hbuf, parseVars, rootVars, muxVars>>

\* if uc, ok := p.Type.(PolicyTypeUnlockConditions); ok { return Address(uc.root()) }
Address(i) ==
    /\ apc[i] = "call"
    /\ IF Receiver(i).type = "uc"
       THEN LET r == ucRoot(Receiver(i))
            IN  /\ ares' = [ares EXCEPT ![i] = r]
                /\ apc' = [apc EXCEPT ![i] = IF r.panic THEN "panic" ELSE "done"]
       ELSE /\ apc' = [apc EXCEPT ![i] = "get"]
            /\ UNCHANGED ares
    /\ UNCHANGED <<acall, hasher, used, pool, hbuf, parseVars, rootVars, muxVars>>

\* h := hasherPool.Get().(*Hasher): an idle hasher leaves the pool, or the
\* pool makes a new one; defer hasherPool.Put(h) is registered
PoolGet(i) ==
    /\ apc[i] = "get"
    /\ \E h \in Hashers :
          /\ \/ h \in pool
             \/ h = CHOOSE n \in Hashers \ (pool \cup Held) :
                        \A m \in Hashers \ (pool \cup Held) : n <= m
          /\ pool' = pool \ {h}
          /\ hasher' = [hasher EXCEPT ![i] = h]
          /\ used' = [used EXCEPT ![i] = h]
    /\ apc' = [apc EXCEPT ![i] = "reset"]
    /\ UNCHANGED <<acall, ares, hbuf, parseVars, rootVars, muxVars>>

\* mutant: the hasher is written to as it came out of the pool
ResetSkipped(i) ==
    /\ apc[i] = "reset"
    /\ apc' = [apc EXCEPT ![i] = "write"]
    /\ UNCHANGED <<acall, hasher, used, ares, pool, hbuf, parseVars, rootVars, muxVars>>

\* h.Reset()
Reset(i) ==
    /\ apc[i] = "reset"
    /\ hbuf' = [hbuf EXCEPT ![hasher[i]] = <<>>]
    /\ apc' = [apc EXCEPT ![i] = "write"]
    /\ UNCHANGED <<acall, hasher, used, ares, pool, parseVars, rootVars, muxVars>>

\* h.E.WriteString("sia/address")
WriteString(i) ==
    /\ apc[i] = "write"
    /\ hbuf' = [hbuf EXCEPT ![hasher[i]] = @ \o AddressDomain]
    /\ apc' = [apc EXCEPT ![i] = "encode"]
    /\ UNCHANGED <<acall, hasher, used, ares, pool, parseVars, rootVars, muxVars>>

\* p.EncodeTo(h.E)
Encode(i) ==
    /\ apc[i] = "encode"
    /\ hbuf' = [hbuf EXCEPT ![hasher[i]] = @ \o EncodeTo(Receiver(i))]
    /\ apc' = [apc EXCEPT ![i] = "sum"]
    /\ UNCHANGED <<acall, hasher, used, ares, pool, parseVars, rootVars, muxVars>>

\* return Address(h.Sum())
SumStep(i) ==
    /\ apc[i] = "sum"
    /\ ares' = [ares EXCEPT ![i] = [addr |-> Sum(hbuf[hasher[i]]), panic |-> FALSE]]
    /\ apc' = [apc EXCEPT ![i] = "put"]
    /\ UNCHANGED <<acall, hasher, used, pool, hbuf, parseVars, rootVars, muxVars>>

\* the deferred hasherPool.Put(h), as the call returns
PoolPut(i) ==
    /\ apc[i] = "put"
    /\ pool' = pool \cup {hasher[i]}
    /\ hasher' = [hasher EXCEPT ![i] = NoHasher]
    /\ apc' = [apc EXCEPT ![i] = "done"]
    /\ UNCHANGED <<acall, used, ares, hbuf, parseVars, rootVars, muxVars>>

AddrNext ==
    \E i \in Calls :
        \/ Address(i) \/ PoolGet(i) \/ Reset(i) \/ WriteString(i)
        \/ Encode(i) \/ SumStep(i) \/ PoolPut(i)

\* what an earlier call has left in a hasher of the pool
UsedBuf == AddressDomain \o EncodeTo(PolicyAbove(U64(1)))

AddrInit ==
    /\ acall \in {f \in [Calls -> 1..Len(AddrCalls)] : \A i \in Calls : f[i] \in ArgsOf(i)}
    /\ apc = [i \in Calls |-> "call"]
    /\ hasher = [i \in Calls |-> NoHasher]
    /\ used = [i \in Calls |-> NoHasher]
    /\ ares = [i \in Calls |-> NoResult]
    /\ pool \in {{}, {1}}
    /\ hbuf = [h \in Hashers |-> IF h \in pool THEN UsedBuf ELSE <<>>]
    /\ ParseIdle
    /\ RootIdle
    /\ MuxIdle

SpecAddr == AddrInit /\ [][AddrNext]_vars

MuxInit ==
    /\ config \in {NilConfig} \cup {<<c>> : c \in Configs}
    /\ session = NilSession
    /\ cerr = NilErr
    /\ called = "none"
    /\ mpc = "call"
    /\ ParseIdle
    /\ RootIdle
    /\ AddrIdle

SpecMux == MuxInit /\ [][MuxNext]_vars

Init == ParseInit \/ RootInit \/ MuxInit \/ AddrInit
Next == ParseNext \/ RootNext \/ MuxNext \/ AddrNext
Spec == Init /\ [][Next]_vars

(***************************************************************************)
(* Reference notions the claims are stated with.  They work on the decimal  *)
(* and hexadecimal texts themselves, not on the parser's operators.         *)
(***************************************************************************)
AllDigits(tok) == tok # <<>> /\ \A i \in 1..Len(tok) : IsDigit(tok[i])

\* a numeral without its leading zeros
RECURSIVE Canon(_)
Canon(tok) == IF Len(tok) > 1 /\ Head(tok) = "0" THEN Canon(Tail(tok)) ELSE tok

\* a <= b for numerals without leading zeros
DecLeq(a, b) ==
    \/ Len(a) < Len(b)
    \/ /\ Len(a) = Len(b)
       /\ \/ a = b
          \/ \E i \in 1..Len(a) :
               /\ DigitVal(a[i]) < DigitVal(b[i])
               /\ \A j \in 1..(i - 1) : a[j] = b[j]

InRange(tok, max) == AllDigits(tok) /\ DecLeq(Canon(tok), max)

\* the value of a short numeral
RECURSIVE SmallVal(_)
SmallVal(tok) ==
    IF tok = <<>> THEN 0
    ELSE SmallVal(SubSeq(tok, 1, Len(tok) - 1)) * 10 + DigitVal(tok[Len(tok)])

LowerHex(c) ==
    IF \E d \in 1..16 : HexUpper[d] = c
    THEN HexTable[CHOOSE d \in 1..16 : HexUpper[d] = c]
    ELSE c
LowerTok(k) == [i \in 1..Len(k) |-> LowerHex(k[i])]

GoodKeyTok(k) == Len(k) = PubKeyHexLen /\ \A i \in 1..Len(k) : IsHex(k[i])

RECURSIVE Flatten(_, _)
Flatten(seqs, i) == IF i > Len(seqs) THEN <<>> ELSE seqs[i] \o Flatten(seqs, i + 1)

\* every number token of the tree is a numeral within its field's width
RECURSIVE NumsInRange(_)
NumsInRange(tr) ==
    CASE tr.k = "above" -> InRange(tr.num, TokMax64)
      [] tr.k = "thresh" ->
           InRange(tr.num, Tok255) /\ \A i \in 1..Len(tr.of) : NumsInRange(tr.of[i])
      [] tr.k = "uc" -> InRange(tr.num, TokMax64) /\ InRange(tr.sigs, Tok255)
      [] OTHER -> TRUE

\* the key tokens of the tree in text order
RECURSIVE KeyToksOf(_)
KeyToksOf(tr) ==
    CASE tr.k = "pk" -> <<tr.key>>
      [] tr.k = "uc" -> tr.keys
      [] tr.k = "thresh" -> Flatten([i \in 1..Len(tr.of) |-> KeyToksOf(tr.of[i])], 1)
      [] OTHER -> <<>>

KeysGood(tr) == \A i \in 1..Len(KeyToksOf(tr)) : GoodKeyTok(KeyToksOf(tr)[i])
FirstBadKey(tr) ==
    LET ks == KeyToksOf(tr)
    IN  ks[CHOOSE i \in 1..Len(ks) :
              ~GoodKeyTok(ks[i]) /\ \A j \in 1..(i - 1) : GoodKeyTok(ks[j])]

\* a uc list whose last element is empty: its text is the list without that
\* element, followed by ',' if it is not the only one, and holds no such token
RECURSIVE EmptyLastKey(_)
EmptyLastKey(tr) ==
    CASE tr.k = "uc" -> tr.keys # <<>> /\ tr.keys[Len(tr.keys)] = <<>>
      [] tr.k = "thresh" -> \E i \in 1..Len(tr.of) : EmptyLastKey(tr.of[i])
      [] OTHER -> FALSE

\* the tree with its hex in lower case and, with canon, its numerals without
\* leading zeros
RECURSIVE NormTree(_, _)
NormTree(tr, canon) ==
    Tree(tr.k,
         IF canon /\ tr.num # <<>> THEN Canon(tr.num) ELSE tr.num,
         LowerTok(tr.key),
         [i \in 1..Len(tr.keys) |-> LowerTok(tr.keys[i])],
         [i \in 1..Len(tr.of) |-> NormTree(tr.of[i], canon)],
         IF canon /\ tr.sigs # <<>> THEN Canon(tr.sigs) ELSE tr.sigs)

\* the numeric fields of a policy as numerals, and the numerals of a tree
RECURSIVE NumFields(_)
NumFields(q) ==
    CASE q.type = "above" -> <<FormatUint(q.height)>>
      [] q.type = "thresh" ->
           <<FormatUint(U64(q.n))>>
             \o Flatten([i \in 1..Len(q.of) |-> NumFields(q.of[i])], 1)
      [] q.type = "uc" -> <<FormatUint(q.timelock), FormatUint(U64(q.sigs))>>
      [] OTHER -> <<>>

RECURSIVE CanonNums(_)
CanonNums(tr) ==
    CASE tr.k = "above" -> <<Canon(tr.num)>>
      [] tr.k = "thresh" ->
           <<Canon(tr.num)>> \o Flatten([i \in 1..Len(tr.of) |-> CanonNums(tr.of[i])], 1)
      [] tr.k = "uc" -> <<Canon(tr.num), Canon(tr.sigs)>>
      [] OTHER -> <<>>

\* the 8-bit fields of a policy as integers, and the values of a tree's numerals
RECURSIVE Fields8(_)
Fields8(q) ==
    CASE q.type = "thresh" ->
           <<q.n>> \o Flatten([i \in 1..Len(q.of) |-> Fields8(q.of[i])], 1)
      [] q.type = "uc" -> <<q.sigs>>
      [] OTHER -> <<>>

RECURSIVE Values8(_)
Values8(tr) ==
    CASE tr.k = "thresh" ->
           <<SmallVal(tr.num)>> \o Flatten([i \in 1..Len(tr.of) |-> Values8(tr.of[i])], 1)
      [] tr.k = "uc" -> <<SmallVal(tr.sigs)>>
      [] OTHER -> <<>>

\* position pos of text is next to a delimiter
AtDelim(text, pos) ==
    \/ pos >= 1 /\ text[pos] \in Delims
    \/ pos < Len(text) /\ text[pos + 1] \in Delims

IsTree == Done /\ tcase.fam = "tree"

(***************************************************************************)
(* Claims.                                                                  *)
(***************************************************************************)
\* C1: for every policy p built from the constructors, ParseSpendPolicy(p.String())
\* returns a nil error and a policy equal to p, sub-policies and keys in order.
C1_RoundTripPolicy ==
    (Done /\ tcase.fam = "policy") => (err = NilErr /\ p = tcase.p)

C1_Witness ==
    /\ Done /\ tcase.fam = "policy" /\ err = NilErr
    /\ p.type = "thresh" /\ p.n > Len(p.of) /\ Len(p.of) = 2
    /\ p.of[1].type = "uc" /\ p.of[2].type = "thresh" /\ Len(p.of[2].of) = 2

\* C4: once the sticky error is set, no later step of ParseSpendPolicy replaces
\* or clears it, so the error returned is the first one.
C4_StickyErrorOnce == [][err # NilErr => err' = err]_vars

C4_Witness ==
    /\ Done /\ tcase.fam = "tree"
    /\ tcase.t = TThresh(Tok02, <<TPk(<<"0", "0">>), TPk(KeyTokC)>>)
    /\ err.kind = "length" /\ s # <<>>

\* C5 as claimed: for every text of the grammar with well-formed tokens,
\* ParseSpendPolicy succeeds and the result's String() is the text with its hex in
\* lower case.
C5_TextRoundTripLowerHex ==
    (IsTree /\ NumsInRange(tcase.t) /\ KeysGood(tcase.t))
        => (err = NilErr /\ String(p) = Render(NormTree(tcase.t, FALSE)))

\* C5 as amended: for every text of the grammar whose numerals are within their
\* field's width and whose keys are 64 hex characters, ParseSpendPolicy succeeds
\* and the result's String() is the text with its hex in lower case and its
\* numerals without leading zeros.
C5_TextRoundTripNormalized ==
    (IsTree /\ NumsInRange(tcase.t) /\ KeysGood(tcase.t))
        => (err = NilErr /\ String(p) = Render(NormTree(tcase.t, TRUE)))

C5_Witness ==
    /\ Done /\ tcase.fam = "tree" /\ err = NilErr
    /\ tcase.t = TUc(Tok007, <<KeyTokC>>, Tok02)
    /\ String(p) # Render(tcase.t)

\* C6: ParseSpendPolicy returns a nil error only for texts of the grammar; a text
\* of the grammar with one more ',' put in anywhere is not of the grammar (so no
\* ',' before the first element of a list, after the last, or twice in a row).
C6_NoStrayComma ==
    (Done /\ tcase.fam = "insert" /\ tcase.edit.txt = <<",">>) => err # NilErr

\* C7: a canonical text with whitespace put in immediately before or after a
\* delimiter parses to the policy of the canonical text.
C7_WhitespaceAtDelimiters ==
    (Done /\ tcase.fam = "insert" /\ tcase.edit.txt \in {<<" ">>, <<"\t">>}
          /\ AtDelim(String(tcase.p), tcase.edit.pos))
        => (err = NilErr /\ p = tcase.p)

\* C8: in a text of the grammar with well-formed keys and numerals for numbers,
\* parsing fails with a range error exactly when some numeral exceeds its field's
\* width (2^64-1 for a height or timelock, 255 for n or sigsRequired), and when it
\* succeeds every numeric field has the value of its numeral.
C8_NoSilentTruncation ==
    (IsTree /\ KeysGood(tcase.t))
        => /\ (err = NilErr) <=> NumsInRange(tcase.t)
           /\ err # NilErr => err.kind = "range"
           /\ err = NilErr => /\ NumFields(p) = CanonNums(tcase.t)
                              /\ Fields8(p) = Values8(tcase.t)

C8_Witness ==
    /\ Done /\ tcase.fam = "tree"
    /\ tcase.t = TThresh(Tok256, <<>>)
    /\ err = [kind |-> "range", arg |-> Tok256]

\* C9 as claimed: a complete policy followed by any non-empty text is rejected
\* with the trailing-bytes error.
C9_AnySuffixRejected ==
    (Done /\ tcase.fam = "suffix") => err.kind = "trailing"

\* C9 as amended: a complete policy followed by text that is not all whitespace is
\* rejected with the trailing-bytes error, which names that text; a nil error
\* implies that no text is left.
C9_TrailingRejected ==
    Done => /\ err = NilErr => s = <<>>
            /\ (tcase.fam = "suffix" /\ TrimSpace(tcase.edit.txt) # <<>>)
                 => err = [kind |-> "trailing", arg |-> TrimRight(tcase.edit.txt)]

C9_Witness ==
    /\ Done /\ tcase.fam = "suffix"
    /\ tcase.p = PolicyAbove(U64(5)) /\ tcase.edit.txt = <<"x", "y", "z">>
    /\ err.kind = "trailing"

RefNode(left, right) == [h |-> <<1>>, kids |-> <<left, right>>]

\* the largest power of two strictly below n
RECURSIVE SplitAt(_, _)
SplitAt(n, k) == IF 2 * k < n THEN SplitAt(n, 2 * k) ELSE k

RECURSIVE RefTree(_)
RefTree(leaves) ==
    IF Len(leaves) = 1 THEN leaves[1]
    ELSE LET k == SplitAt(Len(leaves), 1)
         IN  RefNode(RefTree(SubSeq(leaves, 1, k)),
                     RefTree(SubSeq(leaves, k + 1, Len(leaves))))

LeafSeq(u) ==
    <<uint64Leaf(u.timelock)>>
      \o [i \in 1..Len(u.keys) |-> pubkeyLeaf(u.keys[i])]
      \o <<uint64Leaf(U64(u.sigs))>>

Ended == rpc \in {"done", "panic"}

\* C2: for every unlock-conditions value, root() returns the root of the
\* reference tree over [u64Leaf(timelock), pubkeyLeaf(k_1), ..., u64Leaf(sigs)],
\* split at the largest power of two strictly below the number of leaves.
C2_RootIsReferenceTree ==
    Ended => (rpc = "done" /\ root = RefTree(LeafSeq(uc)))

\* what root() does return is the root of the reference tree
RootReturnedIsReferenceTree ==
    rpc = "done" => root = RefTree(LeafSeq(uc))

\* C3: Address() is total: root() never indexes the subtree array out of range
\* and the leaf counter never wraps, whatever the number of keys.
C3_AddressTotal ==
    /\ rpc # "panic"
    /\ numLeaves = added

\* the leaves below slot i: those after the ones the higher occupied slots cover
SlotOffset(i) == numLeaves - (numLeaves % Pow2(i + 1))
SlotHolds(i) ==
    /\ SlotOffset(i) + Pow2(i) <= added
    /\ trees[i] = RefTree(SubSeq(LeafSeq(uc), SlotOffset(i) + 1,
                                  SlotOffset(i) + Pow2(i)))

\* the accumulator with every slot whose bit is clear overwritten
ClearedAcc ==
    [trees |-> [i \in DOMAIN trees |->
                   IF BitSet(numLeaves, i) THEN trees[i] ELSE ZeroHash],
     numLeaves |-> numLeaves]

\* C17: after k addLeaf calls (k below 256) numLeaves = k, and bit i of
\* numLeaves is set exactly when trees[i] holds the root of the perfect subtree
\* over its 2^i consecutive leaves, the occupied slots from highest to lowest
\* covering the leaves added so far in order, the older subtree on the left;
\* treeRoot reads only the slots whose bit is set.
C17_AccumulatorInvariant ==
    rpc # "panic" =>
        /\ numLeaves = added
        /\ \A i \in 0..(NumTrees - 1) : BitSet(numLeaves, i) <=> SlotHolds(i)
        /\ numLeaves > 0 => treeRoot(ClearedAcc) = treeRoot(Acc)

\* seven leaves in three slots, with slot 0 rewritten three times
C17_Witness ==
    /\ rpc = "keys"
    /\ numLeaves = 7
    /\ SlotHolds(2) /\ SlotHolds(1) /\ SlotHolds(0)

\* the lists of the calls that are still running after the step are the lists
\* they had before it
ListsKept ==
    /\ Len(stack') <= Len(stack)
    /\ \A k \in 1..Len(stack') :
          /\ stack'[k].pks = stack[k].pks
          /\ stack'[k].of = stack[k].of

\* as ListsKept, but a call that returns hands its result to the append of its
\* caller's loop
ListsKeptButReturned ==
    /\ Len(stack') <= Len(stack)
    /\ \A k \in 1..Len(stack') :
          /\ stack'[k].pks = stack[k].pks
          /\ \/ stack'[k].of = stack[k].of
             \/ /\ Running("close")
                /\ k = Len(stack) - 1
                /\ stack'[k].of = Append(stack[k].of, Top.ret)

RECURSIVE WellFormed(_)
WellFormed(q) ==
    /\ q.type \in {"above", "pk", "thresh", "uc"}
    /\ q.type = "thresh" => \A i \in 1..Len(q.of) : WellFormed(q.of[i])

\* C18: when ParseSpendPolicy returns a nil error every node of the policy it
\* returns carries one of the four variants; the zero SpendPolicy is returned,
\* at the top or inside a threshold, only with a non-nil error.
C18_NoZeroPolicyOnSuccess ==
    Done => /\ err = NilErr => WellFormed(p)
            /\ ~WellFormed(p) => err # NilErr
            /\ p = ZeroPolicy => err # NilErr

\* a successful parse of an edited text with a nested threshold
C18_Witness ==
    /\ Done
    /\ err = NilErr
    /\ tcase.fam = "insert"
    /\ p.type = "thresh" /\ Len(p.of) = 2 /\ p.of[2].type = "thresh"

\* the zero policy inside a threshold, returned with the error of its type name
ZeroPolicyReturned ==
    /\ Done
    /\ err = [kind |-> "unrecognized", arg |-> TxtFoo]
    /\ p = PolicyThreshold(1, <<ZeroPolicy>>)

\* the number of '(' characters of a text
Opens(text) == Cardinality({i \in 1..Len(text) : text[i] = "("})

\* a step never lengthens s; the step of a thresh iteration that consumes the
\* '(' of the sub-policy, and the step of a uc iteration that reads the key,
\* shorten s or leave the error set; the calls below the outermost one are no
\* more than the '(' consumed so far
StepProgress ==
    /\ Len(s') <= Len(s)
    /\ (Running("open") \/ Running("uc_key")) =>
           (Len(s') < Len(s) \/ err' # NilErr)
    /\ Len(stack') - 1 <= Opens(InputText(tcase)) - Opens(s')

\* the positions of a call of parseSpendPolicy at which a statement is to run
FramePcs ==
    {"type", "open", "switch", "above", "pk", "thresh_n", "thresh_comma",
     "thresh_loop_open", "thresh_loop", "thresh_sep", "thresh_close",
     "uc_timelock", "uc_comma", "uc_loop_open", "uc_loop", "uc_key", "uc_sep",
     "uc_close", "uc_comma2", "uc_sigs", "close"}

\* ParseSpendPolicy has returned, or has a statement to run
Runs ==
    \/ Done
    \/ pc = "trailing"
    \/ pc = "parse" /\ stack # <<>> /\ Top.pc \in FramePcs

\* C14: ParseSpendPolicy terminates on every input: every iteration of the
\* thresh loop and of the uc key loop consumes at least one character or sets
\* the sticky error, and the recursion is no deeper than the number of '('
\* characters of the input.
C14_Terminates ==
    [][StepProgress /\ Runs']_vars

\* a parse that went three calls deep and came back
C14_Witness ==
    /\ Done
    /\ p.type = "thresh"
    /\ Len(p.of) > 0
    /\ p.of[Len(p.of)].type = "thresh"
    /\ Len(p.of[Len(p.of)].of) > 0

\* H("sia/address" || encode(q)) on a hasher nothing else has been written to
AddressRef(q) == [h |-> AddressDomain \o EncodeTo(q), kids |-> <<>>]

\* the policy a call derives the address of
Target(i) ==
    IF Arg(i).fn = "StandardAddress" THEN PolicyPublicKey(Arg(i).pk) ELSE Arg(i).p

\* C11: Address(p) takes the legacy branch exactly when the top-level variant of
\* p is UnlockConditions: it then returns the accumulator root as root() gives
\* it, with no "sia/address" hash and no hasher checked out; for every other
\* top-level variant, a Threshold holding unlock conditions included, it returns
\* H("sia/address" || encode(p)); StandardAddress(k) is Address(PublicKey(k)).
C11_AddressBranches ==
    \A i \in Calls :
        IF Target(i).type = "uc"
        THEN /\ used[i] = NoHasher
             /\ apc[i] \in {"call", "done", "panic"}
             /\ apc[i] = "done" =>
                   /\ ares[i] = [addr |-> RefTree(LeafSeq(Target(i))), panic |-> FALSE]
                   /\ ares[i].addr # AddressRef(Target(i))
             /\ apc[i] = "panic" => Len(Target(i).keys) + 2 >= Uint8Mod
        ELSE /\ apc[i] # "panic"
             /\ apc[i] = "done" =>
                   /\ used[i] # NoHasher
                   /\ ares[i] = [addr |-> AddressRef(Target(i)), panic |-> FALSE]

\* a Threshold holding unlock conditions has been hashed, and unlock conditions
\* have gone through root()
C11_Witness ==
    /\ apc[1] = "done" /\ Target(1).type = "thresh" /\ Len(Target(1).of) > 0
    /\ Target(1).of[1].type = "uc"
    /\ used[1] # NoHasher
    /\ apc[2] = "done" /\ Target(2).type = "uc" /\ used[2] = NoHasher

\* the calls that hold a hasher: from Get to the deferred Put
InFlight == {i \in Calls : apc[i] \in {"reset", "write", "encode", "sum", "put"}}

\* C12: under every interleaving of concurrent Address() calls over the one
\* pool no hasher is held by two calls at once or held while idle in the pool;
\* a call that checked a hasher out has reset it before it writes, puts it
\* back as it returns, and returns what it would on a fresh hasher of its own.
C12_HasherExclusive ==
    /\ \A i \in Calls : i \in InFlight <=> hasher[i] # NoHasher
    /\ \A i \in InFlight : hasher[i] \notin pool /\ hasher[i] = used[i]
    /\ \A i, j \in InFlight : i # j => hasher[i] # hasher[j]
    /\ \A i \in Calls : apc[i] = "write" => hbuf[hasher[i]] = <<>>
    /\ \A i \in Calls : apc[i] = "encode" => hbuf[hasher[i]] = AddressDomain
    /\ \A i \in Calls :
          (apc[i] = "done" /\ used[i] # NoHasher) =>
              /\ used[i] \in pool \cup Held
              /\ ares[i].addr = AddressRef(Target(i))

\* call 2 sums on the hasher call 1 has put back, while the pool holds another
C12_Witness ==
    /\ apc[1] = "done" /\ used[1] # NoHasher
    /\ apc[2] = "sum" /\ hasher[2] = used[1]
    /\ pool # {}

\* the configurations TestConfig has VerifyConfig reject
Rejected(c) ==
    \/ c.KeepAliveInterval = 0
    \/ c.KeepAliveTimeout < c.KeepAliveInterval
    \/ c.MaxFrameSize = 0
    \/ c.MaxFrameSize = MaxFrame + 1
    \/ c.MaxReceiveBuffer = 0

\* C13: Server and Client make a session only after VerifyConfig has accepted
\* the configuration: for a configuration it rejects (KeepAliveInterval 0,
\* KeepAliveTimeout below KeepAliveInterval, MaxFrameSize 0 or 65536,
\* MaxReceiveBuffer 0) both return a nil session and an error, and for a nil
\* configuration they use DefaultConfig, which VerifyConfig accepts.
C13_SessionOnlyIfVerified ==
    (mpc = "returned" /\ called \in {"Server", "Client"}) =>
        /\ session # NilSession =>
              /\ cerr = NilErr
              /\ VerifyConfig(session[1].config) = NilErr
              /\ session[1].client = (called = "Client")
        /\ session = NilSession => cerr # NilErr
        /\ config # NilConfig =>
              /\ (Rejected(config[1]) \/ VerifyConfig(config[1]) # NilErr) =>
                    session = NilSession
              /\ session # NilSession => session[1].config = config[1]
        /\ config = NilConfig =>
              /\ session # NilSession
              /\ session[1].config = DefaultConfig

\* Client was handed a configuration whose only fault is a frame size of 65536
C13_Witness ==
    /\ mpc = "returned"
    /\ called = "Client"
    /\ config = <<[DefaultConfig EXCEPT !.MaxFrameSize = MaxFrame + 1]>>
    /\ session = NilSession
    /\ cerr # NilErr

\* what the messages of VerifyConfig ask of a configuration
Valid(c) ==
    /\ c.KeepAliveInterval > 0
    /\ c.KeepAliveTimeout > c.KeepAliveInterval
    /\ c.MaxFrameSize > 0
    /\ c.MaxFrameSize <= MaxFrame
    /\ c.MaxReceiveBuffer > 0

\* C16: VerifyConfig returns nil only if KeepAliveInterval is positive,
\* KeepAliveTimeout is larger than KeepAliveInterval, MaxFrameSize is positive
\* and at most 65535 and MaxReceiveBuffer is positive, and returns an error for
\* every configuration that breaks one of these, negative values included.
C16_VerifyConfigStrict ==
    (mpc = "returned" /\ called = "VerifyConfig") =>
        (cerr = NilErr <=> Valid(config[1]))

====
